---------------------------- MODULE Spec2Model ----------------------------
(***************************************************************************)
(* A model of clean/ca/oakland_pd.py (class Site): the metadata extractor  *)
(* (_get_asset_links), the child page resolver (_get_child_page) and the   *)
(* download entry point (scrape) with its paginated listing walker.        *)
(*                                                                         *)
(* Python values are modelled as follows.                                  *)
(*   str            a TLA+ string (Len, SubSeq and \o work on strings)     *)
(*   None | x       <<>> for None, <<x>> for the value x                   *)
(*   list           a sequence                                             *)
(*   an HTML page   what BeautifulSoup's find / find_all see of it: its    *)
(*                  anchors in document order (class, text, href) and its  *)
(*                  first table (rows of cells)                            *)
(*   an exception   pc = "raised" with err the exception's class           *)
(* time.sleep(throttle) and every request are recorded in log, the trace   *)
(* of the run's observable events.                                         *)
(***************************************************************************)
EXTENDS Integers, Sequences, FiniteSets, TLC

VARIABLES
    index_html,         \* the index page _get_asset_links is given (line 94)
    site,               \* the remote site and the cached case pages (inputs)
    filter,             \* scrape's filter argument
    data_file,          \* None | the metadata index <agency_slug>.json
    store,              \* the cache's assets: local path -> URL it was fetched from
    child_pages,        \* None | the list scrape iterates (line 50)
    pc,                 \* position in the running entry point
    err,                \* the exception that ended the run ("" while none)
    i,                  \* loop index: asset (line 119) or child page (line 52)
    page_meta,          \* the dicts _get_child_page has built (lines 122-125)
    nextrequest_url,    \* None | str (lines 57, 62, 84, 86)
    visited_urls,       \* line 65
    soup,               \* nextrequest_soup: the listing page being processed
    k,                  \* index of the file link being downloaded (line 74)
    child_page_dir,     \* line 72
    downloaded_assets,  \* line 49
    log,                \* the run's events: sleeps, requests, cache reads
    entry,              \* the entry point called last
    runs                \* entry-point calls made so far

vars == <<index_html, site, filter, data_file, store, child_pages,
          pc, err, i, page_meta, nextrequest_url, visited_urls, soup, k,
          child_page_dir, downloaded_assets, log, entry, runs>>

-----------------------------------------------------------------------------
(* Bounds of the model. *)

MaxRows == 3        \* rows of the index page's table
MaxPieces == 3      \* pieces a URL given to get_child_page_dir is made of
MaxRecords == 3     \* records of the metadata index on disk
MaxRuns == 2        \* entry-point calls in one behaviour

-----------------------------------------------------------------------------
(* Python values. *)

None == <<>>
Some(x) == <<x>>
IsNone(o) == o = <<>>
Val(o) == o[1]

Range(s) == { s[n] : n \in 1..Len(s) }

\* The recursive helpers on strings are functions: TLC evaluates the
\* argument of a function once, where it re-evaluates an operator's.

\* str.strip() (lines 76, 106), over the whitespace the inputs use: " ".
lstrip[s \in STRING] ==
    IF Len(s) > 0 /\ SubSeq(s, 1, 1) = " " THEN lstrip[SubSeq(s, 2, Len(s))] ELSE s

rstrip[s \in STRING] ==
    IF Len(s) > 0 /\ SubSeq(s, Len(s), Len(s)) = " "
    THEN rstrip[SubSeq(s, 1, Len(s) - 1)] ELSE s

strip(s) == rstrip[lstrip[s]]

\* str.find(sep, start): the least index >= start where sep occurs, 0 if none
\* (indices are 1-based here).
find_from[s \in STRING, sep \in STRING, start \in Nat] ==
    LET found == { n \in start..(Len(s) - Len(sep) + 1) :
                     SubSeq(s, n, n + Len(sep) - 1) = sep }
    IN  IF found = {} THEN 0 ELSE CHOOSE n \in found : \A m \in found : n <= m

\* s.split(sep)[-1]: split scans left to right for non-overlapping
\* occurrences of sep; the last piece is what follows the last one it found.
split_last[s \in STRING, sep \in STRING] ==
    LET at == find_from[s, sep, 1]
    IN  IF at = 0 THEN s
        ELSE split_last[SubSeq(s, at + Len(sep), Len(s)), sep]

-----------------------------------------------------------------------------
(* HTML as BeautifulSoup sees it. *)

Anchor(cls, text, href) == [cls |-> cls, text |-> text, href |-> href]

\* soup.find("a", ...): the first anchor among those at the indices hits,
\* or None.
find_anchor(anchors, hits) ==
    IF hits = {} THEN None
    ELSE Some(anchors[CHOOSE n \in hits : \A m \in hits : n <= m])

\* soup.find_all("a", class_=cls): every such anchor, in document order.
find_all_class(anchors, cls) == SelectSeq(anchors, LAMBDA a : a.cls = cls)

find_class(anchors, cls) ==
    find_anchor(anchors, { n \in 1..Len(anchors) : anchors[n].cls = cls })
find_text(anchors, text) ==
    find_anchor(anchors, { n \in 1..Len(anchors) : anchors[n].text = text })

\* An event of the run: time.sleep ("sleep"), requests.get ("get"), cache.read
\* ("read"), cache.download ("download", and "fetch" when it requests the
\* file), with the child page (its place in child_pages) it was made for and
\* the source line that made it.
Event(op, url, path, child, line) ==
    [op |-> op, url |-> url, path |-> path, child |-> child, line |-> line]
Sleep(child, line) == Event("sleep", "", "", child, line)


-----------------------------------------------------------------------------
(* urllib.parse.urljoin(base, url), for the URLs the inputs use: no        *)
(* fragment, no parameters, no "." or ".." path segment.                   *)

\* The URL has a scheme: a ":" before any "/" or "?".
has_scheme[url \in STRING] ==
    LET colon == find_from[url, ":", 1]
        slash == find_from[url, "/", 1]
        query == find_from[url, "?", 1]
    IN  /\ colon > 1
        /\ slash = 0 \/ colon < slash
        /\ query = 0 \/ colon < query

\* scheme://netloc of an absolute URL.
origin[base \in STRING] ==
    LET start == find_from[base, "://", 1] + 3
        slash == find_from[base, "/", start]
        query == find_from[base, "?", start]
        stop  == IF slash > 0 /\ (query = 0 \/ slash < query) THEN slash
                 ELSE IF query > 0 THEN query ELSE Len(base) + 1
    IN  SubSeq(base, 1, stop - 1)

\* The URL without its query.
without_query[base \in STRING] ==
    LET query == find_from[base, "?", 1]
    IN  IF query = 0 THEN base ELSE SubSeq(base, 1, query - 1)

\* The index of the last "/" of s at or after from, 0 if none.
last_slash[s \in STRING, from \in Nat, found \in Nat] ==
    LET at == find_from[s, "/", from]
    IN  IF at = 0 THEN found ELSE last_slash[s, at + 1, at]

\* scheme://netloc and the path up to and with its last "/".
directory[base \in STRING] ==
    LET bare == without_query[base]
        at   == last_slash[bare, Len(origin[base]) + 1, 0]
    IN  IF at = 0 THEN origin[base] \o "/" ELSE SubSeq(bare, 1, at)

urljoin_of[base \in STRING, url \in STRING] ==
    IF url = "" THEN base
    ELSE IF has_scheme[url] THEN url
    ELSE IF SubSeq(url, 1, 1) = "/" THEN origin[base] \o url
    ELSE IF SubSeq(url, 1, 1) = "?" THEN without_query[base] \o url
    ELSE directory[base] \o url

urljoin(base, url) == urljoin_of[base, url]

-----------------------------------------------------------------------------
(* class Site: constants (lines 20-21, 26-31). *)

base_url == "https://www.oaklandca.gov"
disclosure_url ==
    base_url \o "/resources/oakland-police-officers-and-related-sb-1421-16-incidents"
agency_slug == "ca_oakland_pd"

\* An outcome of a helper: the exception it raised ("" if none) and its value.
Outcome(e, v) == [err |-> e, value |-> v]

-----------------------------------------------------------------------------
(* _get_asset_links (lines 91-112). *)

\* A row is the list of its <td> cells; a cell is None or its first anchor.

\* Lines 99-108: the loop over the table's rows, from row n on.
RECURSIVE asset_rows(_, _, _)
asset_rows(rows, n, metadata) ==
    IF n > Len(rows) THEN Outcome("", metadata)
    ELSE LET cols == rows[n]
         IN  IF Len(cols) >= 3
             THEN LET case_no_link == cols[3]
                  IN  IF ~IsNone(case_no_link)
                      THEN IF IsNone(Val(case_no_link).href)
                           THEN Outcome("KeyError", metadata)
                           ELSE asset_rows(rows, n + 1, Append(metadata,
                                    [asset_url |-> Val(Val(case_no_link).href),
                                     name |-> strip(Val(case_no_link).text)]))
                      ELSE asset_rows(rows, n + 1, metadata)
             ELSE asset_rows(rows, n + 1, metadata)

\* Lines 93-98 and 110-112 on the parsed page: table = soup.find("table") is
\* None on a page without a table, and table.find_all raises AttributeError.
\* The value is the metadata write_json is given.
get_asset_links(page) ==
    IF IsNone(page.table) THEN Outcome("AttributeError", <<>>)
    ELSE asset_rows(Val(page.table), 1, <<>>)

-----------------------------------------------------------------------------
(* The inputs: pages of the remote site. *)

Page(anchors, table) == [anchors |-> anchors, table |-> table]
Link(href, text) == Some(Anchor("", text, Some(href)))

\* Rows an index page's table is made of: a header row without <td>, a row
\* of two columns, rows of three and four columns with a link in the third,
\* a row of three columns without one, and a row whose third column holds
\* an <a> without href.
RowHeader == <<>>
RowShort  == <<None, Link("/case/2", "IA-2")>>
RowCase1  == <<None, None, Link("/case/1", " IA-1 ")>>
RowCase3  == <<None, Link("/officer/7", "Doe"), Link("https://ext.org/case/3", "IA-3"), None>>
RowNoLink == <<None, Link("/officer/8", "Roe"), None>>
RowNoHref == <<None, None, Some(Anchor("", "IA-9", None))>>
Rows == {RowHeader, RowShort, RowCase1, RowCase3, RowNoLink, RowNoHref}

RECURSIVE SeqsUpTo(_, _)
SeqsUpTo(S, n) ==
    IF n = 0 THEN {<<>>}
    ELSE LET shorter == SeqsUpTo(S, n - 1)
         IN  shorter \cup { Append(q, x) : q \in shorter, x \in S }

IndexPages ==
    {Page(<<>>, None)} \cup { Page(<<>>, Some(rows)) : rows \in SeqsUpTo(Rows, MaxRows) }

-----------------------------------------------------------------------------
(* The entry points as the program runs them. *)

Ended == pc \in {"idle", "returned", "raised"}

\* What a call of an entry point starts from.
Call ==
    /\ Ended
    /\ runs < MaxRuns
    /\ runs' = runs + 1

\* An exception nothing catches: the call ends with it.
Raise(e) == pc' = "raised" /\ err' = e

loop_vars == <<nextrequest_url, visited_urls, soup, k, child_page_dir>>
inputs == <<index_html, site, filter>>

\* scrape_meta (lines 33-37): line 35 calls self._download_index_page,
\* a method class Site does not define, so the attribute lookup raises
\* AttributeError before anything is requested, read or written; lines
\* 36-37 are not reached. The throttle argument is not used.
scrape_meta ==
    /\ Call
    /\ entry' = "scrape_meta"
    /\ log' = <<>>
    /\ Raise("AttributeError")
    /\ UNCHANGED <<inputs, data_file, store, child_pages, i, page_meta, loop_vars,
                   downloaded_assets>>

\* _get_asset_links(index_page) called on its own (lines 91-112): the page
\* read at line 94 is index_html; write_json at line 111 writes the
\* metadata index, and the call returns its path.
get_asset_links_call ==
    /\ pc = "idle"
    /\ entry' = "_get_asset_links"
    /\ runs' = runs + 1
    /\ log' = <<Event("read", "", "index_page", 0, 94)>>
    /\ LET links == get_asset_links(index_html)
       IN  IF links.err # ""
           THEN Raise(links.err) /\ UNCHANGED data_file
           ELSE /\ data_file' = Some(links.value)
                /\ pc' = "returned"
                /\ err' = ""
    /\ UNCHANGED <<inputs, store, child_pages, i, page_meta, loop_vars, downloaded_assets>>

\* scrape, lines 49-50, into _get_child_page, lines 116-117: read_json of
\* the metadata index, which fails when there is no such file.
scrape_call ==
    /\ Call
    /\ entry' = "scrape"
    /\ downloaded_assets' = <<>>
    /\ log' = <<>>
    /\ page_meta' = <<>>
    /\ i' = 0
    /\ child_pages' = None
    /\ IF IsNone(data_file)
       THEN Raise("FileNotFoundError")
       ELSE pc' = "resolve" /\ err' = ""
    /\ UNCHANGED <<inputs, data_file, store, loop_vars>>

\* _get_child_page, lines 119-125, for one asset: the delay, then the dict.
get_child_page_asset ==
    /\ pc = "resolve"
    /\ i < Len(Val(data_file))
    /\ LET asset == Val(data_file)[i + 1]
           url == asset.asset_url
       IN  page_meta' = Append(page_meta,
               [source_name |-> asset.name, url |-> urljoin(base_url, url)])
    /\ log' = Append(log, Sleep(0, 121))
    /\ i' = i + 1
    /\ UNCHANGED <<inputs, data_file, store, child_pages, pc, err,
                   loop_vars, downloaded_assets, entry, runs>>

\* The value _get_child_page returns: the function ends at line 125 after
\* the loop, with no return statement and without adding page_meta to
\* child_pages, so its value is None.
get_child_page_value(built) == None

\* _get_child_page returns to scrape, line 50.
get_child_page_return ==
    /\ pc = "resolve"
    /\ i = Len(Val(data_file))
    /\ child_pages' = get_child_page_value(page_meta)
    /\ pc' = "for"
    /\ i' = 0
    /\ UNCHANGED <<inputs, data_file, store, err, page_meta,
                   loop_vars, downloaded_assets, log, entry, runs>>

\* Line 52 when child_pages is None: iterating it raises TypeError.
iterate_none ==
    /\ pc = "for"
    /\ IsNone(child_pages)
    /\ Raise("TypeError")
    /\ UNCHANGED <<inputs, data_file, store, child_pages, i,
                   page_meta, loop_vars, downloaded_assets, log, entry, runs>>

-----------------------------------------------------------------------------
(* The collaborators of scrape's loop: pathlib, requests, the Cache. *)

\* "//" and longer runs of "/" collapsed to one "/".
collapse[s \in STRING] ==
    LET at == find_from[s, "//", 1]
    IN  IF at = 0 THEN s
        ELSE collapse[SubSeq(s, 1, at) \o SubSeq(s, at + 2, Len(s))]

\* str(Path(a, b, c, d)): an absolute part drops what precedes it, an empty
\* part adds nothing, the parts are joined with "/", runs of "/" collapse and
\* a trailing "/" goes. (No part of the inputs is "." or holds a "/./".)
path_parts[parts \in Seq(STRING), n \in Nat, acc \in STRING] ==
    IF n > Len(parts) THEN acc
    ELSE LET part == parts[n]
         IN  path_parts[parts, n + 1,
                 IF part = "" THEN acc
                 ELSE IF SubSeq(part, 1, 1) = "/" \/ acc = "" THEN part
                 ELSE acc \o "/" \o part]

strip_slash[joined \in STRING] ==
    IF Len(joined) > 1 /\ SubSeq(joined, Len(joined), Len(joined)) = "/"
    THEN SubSeq(joined, 1, Len(joined) - 1)
    ELSE joined

path_str(parts) == strip_slash[collapse[path_parts[parts, 1, ""]]]

\* The directory the Cache keeps its files under (utils.CLEAN_CACHE_DIR).
cache_dir == "cache"

\* requests.get(url) on the site, when the connection does not fail: a URL
\* without a scheme raises MissingSchema; a URL the site does not serve
\* answers with a page without anchors (an error page is a response too).
EmptyPage == Page(<<>>, None)

requests_get(url) ==
    IF ~has_scheme[url] THEN Outcome("MissingSchema", EmptyPage)
    ELSE IF url \in DOMAIN site.web THEN Outcome("", site.web[url])
    ELSE Outcome("", EmptyPage)

\* Whether a request of url may end in a connection error.
MayFail(url) == url \in site.flaky

\* Cache.download(name, url): the file is requested only when the cache does
\* not hold name; the value is the local path.
cache_has(name) == name \in DOMAIN store
cache_path_of(name) == path_str(<<cache_dir, name>>)
cache_put(name, url) == [n \in DOMAIN store \cup {name} |-> IF n = name THEN url ELSE store[n]]

-----------------------------------------------------------------------------
(* scrape's loop over the child pages (lines 52-88), line by line. The      *)
(* steps from line 53 on need a list at line 52, which _get_child_page     *)
(* never gives: they are part of no specification below.                   *)

\* Line 66: the while condition.
loop_condition(url, visited) ==
    /\ ~IsNone(url)
    /\ Val(url) # ""
    /\ Val(url) \notin visited

\* Line 65: the visited set a traversal starts with, whatever the set of
\* the traversal before was.
visited_fresh(visited) == {}

\* Line 67.
visited_add(visited, url) == visited \cup {url}

\* The text after the first "folder_filter=" rather than the last.
get_child_page_dir_first(url) ==
    LET at == find_from[url, "folder_filter=", 1]
    IN  IF at = 0 THEN url ELSE SubSeq(url, at + Len("folder_filter="), Len(url))

\* Line 72.
get_child_page_dir(url) == split_last[url, "folder_filter="]

\* Line 77.
get_download_path(dir, file_name) == path_str(<<agency_slug, "assets", dir, file_name>>)

\* Line 75.
get_file_url(url, href) == urljoin(url, href)

\* Lines 82-86, for a next link that has an href.
get_next_url(url, next_link) ==
    IF ~IsNone(next_link) THEN Some(urljoin(url, Val(Val(next_link).href))) ELSE None

\* Line 79: whether the download requests the file.
download_requests(name) == ~cache_has(name)

\* Line 70.
file_links == find_all_class(soup.anchors, "document-link")

prog_vars == <<data_file, page_meta, entry, runs>>

\* Line 52: the next child page, or line 88 after the last one.
for_child ==
    /\ pc = "for"
    /\ ~IsNone(child_pages)
    /\ IF i < Len(Val(child_pages))
       THEN i' = i + 1 /\ pc' = "child"
       ELSE i' = i /\ pc' = "returned"
    /\ UNCHANGED <<inputs, prog_vars, store, child_pages, err, loop_vars,
                   downloaded_assets, log>>

\* Lines 55-57 on the case page's anchors: "skip" when the page has no
\* case number link (the if of line 56 is false), else the URL of line 57.
case_link_url(anchors) ==
    LET case_no_link == find_text(anchors, "Internal Affairs Case No.")
    IN  IF IsNone(case_no_link) THEN Outcome("skip", "")
        ELSE IF IsNone(Val(case_no_link).href) THEN Outcome("KeyError", "")
        ELSE Outcome("", urljoin(base_url, Val(Val(case_no_link).href)))

\* Lines 53-57: the case page from the cache and its case number link. A
\* child page without the key "cache_path" raises KeyError at line 53.
read_child ==
    /\ pc = "child"
    /\ LET child_page == Val(child_pages)[i]
           keyed == "cache_path" \in DOMAIN child_page
           path == IF keyed THEN child_page.cache_path ELSE ""
           found == IF ~keyed THEN Outcome("KeyError", "")
                    ELSE IF path \in DOMAIN site.cached
                    THEN case_link_url(site.cached[path].anchors)
                    ELSE Outcome("FileNotFoundError", "")
       IN  /\ log' = IF keyed THEN Append(log, Event("read", "", path, i, 53)) ELSE log
           /\ IF found.err = "skip"
              THEN pc' = "for" /\ UNCHANGED <<err, nextrequest_url>>
              ELSE IF found.err # ""
              THEN Raise(found.err) /\ UNCHANGED nextrequest_url
              ELSE /\ nextrequest_url' = Some(found.value)
                   /\ pc' = "landing"
                   /\ UNCHANGED err
    /\ UNCHANGED <<inputs, prog_vars, store, child_pages, i, visited_urls, soup, k,
                   child_page_dir, downloaded_assets>>

\* Lines 58-65: the landing page and its first document link.
fetch_landing ==
    /\ pc = "landing"
    /\ \E ok \in IF MayFail(Val(nextrequest_url)) THEN BOOLEAN ELSE {TRUE} :
         LET response == requests_get(Val(nextrequest_url))
             link == find_class(response.value.anchors, "document-link")
         IN  /\ log' = Append(log, Event("get", Val(nextrequest_url), "", i, 58))
             /\ IF response.err # ""
                THEN Raise(response.err) /\ UNCHANGED <<nextrequest_url, visited_urls>>
                ELSE IF ~ok
                THEN Raise("ConnectionError") /\ UNCHANGED <<nextrequest_url, visited_urls>>
                ELSE IF IsNone(link)
                THEN Raise("TypeError") /\ UNCHANGED <<nextrequest_url, visited_urls>>
                ELSE IF IsNone(Val(link).href)
                THEN Raise("KeyError") /\ UNCHANGED <<nextrequest_url, visited_urls>>
                ELSE /\ nextrequest_url' = Val(link).href
                     /\ visited_urls' = visited_fresh(visited_urls)
                     /\ pc' = "while"
                     /\ UNCHANGED err
    /\ UNCHANGED <<inputs, prog_vars, store, child_pages, i, soup, k, child_page_dir,
                   downloaded_assets>>

\* Line 66.
while_test ==
    /\ pc = "while"
    /\ pc' = IF loop_condition(nextrequest_url, visited_urls) THEN "listing" ELSE "for"
    /\ UNCHANGED <<inputs, prog_vars, store, child_pages, err, i, loop_vars,
                   downloaded_assets, log>>

\* Lines 67-72: a listing page.
fetch_listing ==
    /\ pc = "listing"
    /\ visited_urls' = visited_add(visited_urls, Val(nextrequest_url))
    /\ \E ok \in IF MayFail(Val(nextrequest_url)) THEN BOOLEAN ELSE {TRUE} :
         LET response == requests_get(Val(nextrequest_url))
         IN  /\ log' = Append(log, Event("get", Val(nextrequest_url), "", i, 68))
             /\ IF response.err # ""
                THEN Raise(response.err) /\ UNCHANGED <<soup, k, child_page_dir>>
                ELSE IF ~ok
                THEN Raise("ConnectionError") /\ UNCHANGED <<soup, k, child_page_dir>>
                ELSE /\ soup' = response.value
                     /\ child_page_dir' = get_child_page_dir(Val(nextrequest_url))
                     /\ k' = 0
                     /\ pc' = "files"
                     /\ UNCHANGED err
    /\ UNCHANGED <<inputs, prog_vars, store, child_pages, i, nextrequest_url,
                   downloaded_assets>>

\* Lines 74-79: one file link of the page.
download_file ==
    /\ pc = "files"
    /\ k < Len(file_links)
    /\ LET file_link == file_links[k + 1]
       IN  IF IsNone(file_link.href)
           THEN /\ Raise("KeyError")
                /\ UNCHANGED <<store, k, downloaded_assets, log>>
           ELSE LET file_url == get_file_url(Val(nextrequest_url), Val(file_link.href))
                    file_name == strip(file_link.text)
                    download_path == get_download_path(child_page_dir, file_name)
                    asked == <<Sleep(i, 78), Event("download", file_url, download_path, i, 79)>>
                IN  IF ~download_requests(download_path)
                    THEN /\ log' = log \o asked
                         /\ downloaded_assets' =
                                Append(downloaded_assets, cache_path_of(download_path))
                         /\ k' = k + 1
                         /\ UNCHANGED <<store, pc, err>>
                    ELSE \E ok \in IF MayFail(file_url) THEN BOOLEAN ELSE {TRUE} :
                         /\ log' = log \o asked \o <<Event("fetch", file_url, download_path, i, 79)>>
                         /\ IF ok
                            THEN /\ store' = cache_put(download_path, file_url)
                                 /\ downloaded_assets' =
                                        Append(downloaded_assets, cache_path_of(download_path))
                                 /\ k' = k + 1
                                 /\ UNCHANGED <<pc, err>>
                            ELSE /\ Raise("ConnectionError")
                                 /\ UNCHANGED <<store, k, downloaded_assets>>
    /\ UNCHANGED <<inputs, prog_vars, child_pages, i, nextrequest_url, visited_urls,
                   soup, child_page_dir>>

\* Lines 81-86: the next pagination link.
advance ==
    /\ pc = "files"
    /\ k = Len(file_links)
    /\ LET next_link == find_class(soup.anchors, "next")
       IN  IF ~IsNone(next_link) /\ IsNone(Val(next_link).href)
           THEN Raise("KeyError") /\ UNCHANGED nextrequest_url
           ELSE /\ nextrequest_url' = get_next_url(Val(nextrequest_url), next_link)
                /\ pc' = "while"
                /\ UNCHANGED err
    /\ UNCHANGED <<inputs, prog_vars, store, child_pages, i, visited_urls, soup, k,
                   child_page_dir, downloaded_assets, log>>

-----------------------------------------------------------------------------
(* The environment of scrape: the metadata index on disk, the case pages,  *)
(* the records platform's landing and listing pages.                       *)

platform == "https://nr.org"
ListingA == platform \o "/list?folder_filter=42"
ListingB == platform \o "/list?folder_filter=42&page=2"
ListingC == platform \o "/d/list2"
LandingA == base_url \o "/nr/a"
LandingC == platform \o "/c"
LandingBad == base_url \o "/nr/bad"
CaseUrl1 == base_url \o "/case/1"
CaseUrl3 == "https://ext.org/case/3"

Doc(text, href) == Anchor("document-link", text, Some(href))
NextLink(href) == Anchor("next", "Next", Some(href))
Home == Anchor("", "Home", Some("/"))
CaseNo(href) == Anchor("", "Internal Affairs Case No.", Some(href))

\* The cached case pages: with the case number link (a relative and an
\* absolute href), without it, and one whose landing page has no document
\* link.
CachedPages ==
    [p \in {"case_a.html", "case_c.html", "case_none.html", "case_bad.html"} |->
        CASE p = "case_a.html" -> Page(<<Home, CaseNo("/nr/a")>>, None)
          [] p = "case_c.html" -> Page(<<CaseNo(LandingC), Home>>, None)
          [] p = "case_none.html" -> Page(<<Home, Anchor("", "Internal Affairs", Some("/nr/a"))>>, None)
          [] p = "case_bad.html" -> Page(<<CaseNo("/nr/bad")>>, None)]

\* The remote pages, with the next links na, nb, nc on the listing pages:
\* two case pages (one with the case number link, one without), landing
\* pages with and without a document link, and three listing pages.
Web(na, nb, nc) ==
    [u \in {CaseUrl1, CaseUrl3, LandingA, LandingC, LandingBad, ListingA, ListingB, ListingC} |->
        CASE u = CaseUrl1 -> Page(<<Home, CaseNo("/nr/a")>>, None)
          [] u = CaseUrl3 -> Page(<<Home>>, None)
          [] u = LandingA -> Page(<<Home, Doc("Documents", ListingA)>>, None)
          [] u = LandingC -> Page(<<Doc("Documents", ListingC), Doc("More", ListingA)>>, None)
          [] u = LandingBad -> Page(<<Home>>, None)
          [] u = ListingA ->
                Page(<<Doc("a.pdf", "/f/1"), Home, Doc(" b.pdf ", "https://cdn.org/f/2")>> \o na, None)
          [] u = ListingB -> Page(nb \o <<Doc("a.pdf", "f/3")>>, None)
          [] u = ListingC -> Page(<<Doc("c.pdf", "c.pdf")>> \o nc, None)]

\* Every URL a run may request: the pages and the files.
AllUrls ==
    {CaseUrl1, CaseUrl3, LandingA, LandingC, LandingBad, ListingA, ListingB, ListingC,
     platform \o "/f/1", "https://cdn.org/f/2", platform \o "/f/3", platform \o "/d/c.pdf"}

\* The fixture of the end-to-end scenario: one case page, two listing pages
\* with three document links, no cycle, a network that does not fail.
Fixture ==
    [cached |-> CachedPages,
     web |-> Web(<<NextLink("?folder_filter=42&page=2")>>, <<>>, <<>>),
     flaky |-> {}]

\* The fixture with a next link on page 2 that leads back to page 1.
CyclicSite ==
    [Fixture EXCEPT !.web = Web(<<NextLink("?folder_filter=42&page=2")>>,
                                <<NextLink("list?folder_filter=42")>>, <<>>)]

\* The fixture with a second listing page that has two document links of
\* the same display name and different hrefs.
CollidingSite ==
    [Fixture EXCEPT !.web[ListingB] =
        Page(<<Doc("a.pdf", "f/3"), Doc(" a.pdf", "f/4")>>, None)]

\* The fixture with a case page whose landing page has no document link.
BadLandingSite ==
    [Fixture EXCEPT !.web[CaseUrl1] = Page(<<CaseNo("/nr/bad")>>, None)]

\* The fixture on a network where any request may fail.
FlakyFixture == [Fixture EXCEPT !.flaky = AllUrls]

ScenarioSites == {Fixture, CyclicSite, CollidingSite, BadLandingSite, FlakyFixture}

Filters == {"", "f/1"}

\* The metadata index on disk when scrape is called: no file, or a list of
\* AssetRecords (a relative and an absolute asset_url).
Record1 == [asset_url |-> "/case/1", name |-> "IA-1"]
Record3 == [asset_url |-> CaseUrl3, name |-> "IA-3"]
IndexFiles ==
    {None} \cup { Some(records) : records \in SeqsUpTo({Record1, Record3}, MaxRecords) }

-----------------------------------------------------------------------------
(* Specifications. *)

InitLocals ==
    /\ err = ""
    /\ i = 0
    /\ page_meta = <<>>
    /\ nextrequest_url = None
    /\ visited_urls = {}
    /\ soup = EmptyPage
    /\ k = 0
    /\ child_page_dir = ""
    /\ downloaded_assets = <<>>
    /\ log = <<>>
    /\ entry = ""
    /\ runs = 0

\* The program: a new Site, before any entry point is called, with the
\* metadata index a former run may have left on disk.
Init ==
    /\ index_html = Page(<<>>, None)
    /\ site \in ScenarioSites
    /\ filter \in Filters
    /\ data_file \in IndexFiles
    /\ store = << >>
    /\ child_pages = None
    /\ pc = "idle"
    /\ InitLocals

Next == scrape_meta \/ scrape_call \/ get_child_page_asset \/ get_child_page_return
            \/ iterate_none

Spec == Init /\ [][Next]_vars

\* Lines 53-88, the body of scrape's for loop. No behaviour of Spec reaches
\* them: child_pages is None at line 52.
NextLoop == for_child \/ read_child \/ fetch_landing \/ while_test \/ fetch_listing
                \/ download_file \/ advance

\* _get_asset_links alone, on an index page in the cache, with or without
\* a metadata index already on disk.
InitLinks ==
    /\ index_html \in IndexPages
    /\ site = Fixture
    /\ filter = ""
    /\ data_file \in {None, Some(<<Record3>>)}
    /\ store = << >>
    /\ child_pages = None
    /\ pc = "idle"
    /\ InitLocals

SpecLinks == InitLinks /\ [][get_asset_links_call]_vars

\* Line 72 alone, on URLs made of pieces that hold the marker, parts of it
\* and other text.
UrlPieces == {"folder_filter=", "folder_filter", "=", "42/docs", "list?"}

RECURSIVE Concat(_)
Concat(pieces) == IF pieces = <<>> THEN "" ELSE Head(pieces) \o Concat(Tail(pieces))

UrlInputs == { Concat(pieces) : pieces \in SeqsUpTo(UrlPieces, MaxPieces) }

InitFolder ==
    /\ index_html = Page(<<>>, None)
    /\ site = Fixture
    /\ filter = ""
    /\ data_file = None
    /\ store = << >>
    /\ child_pages = None
    /\ pc = "derive"
    /\ err = ""
    /\ i = 0
    /\ page_meta = <<>>
    /\ nextrequest_url \in { Some(u) : u \in UrlInputs }
    /\ visited_urls = {}
    /\ soup = EmptyPage
    /\ k = 0
    /\ child_page_dir = ""
    /\ downloaded_assets = <<>>
    /\ log = <<>>
    /\ entry = ""
    /\ runs = 0

derive_dir ==
    /\ pc = "derive"
    /\ child_page_dir' = get_child_page_dir(Val(nextrequest_url))
    /\ pc' = "derived"
    /\ UNCHANGED <<inputs, prog_vars, store, child_pages, err, i, nextrequest_url,
                   visited_urls, soup, k, downloaded_assets, log>>

SpecFolder == InitFolder /\ [][derive_dir]_vars

-----------------------------------------------------------------------------
(* The claims. *)

\* A call of scrape on the site s, with the metadata index holding records,
\* has ended.
Ran(s, records) ==
    /\ entry = "scrape"
    /\ pc \in {"returned", "raised"}
    /\ site = s
    /\ data_file = Some(records)

\* The requests of listing pages (line 68) made for child page c, in order.
ListingGets(c) ==
    SelectSeq(log, LAMBDA e : e.op = "get" /\ e.line = 68 /\ e.child = c)

UrlsOf(events) == [n \in 1..Len(events) |-> events[n].url]
Urls(events) == Range(UrlsOf(events))

\* The events of child page c that give a file to the downloader.
Downloads(c) == SelectSeq(log, LAMBDA e : e.op = "download" /\ e.child = c)

\* The events of child page c that request a file's bytes.
Fetches(c) == SelectSeq(log, LAMBDA e : e.op = "fetch" /\ e.child = c)

\* C1: in one traversal every listing URL is requested at most once; on the
\* site whose pages are A -> B -> A, a run of scrape on one case requests A
\* and B and stops at the link back to A with visited_urls = {A, B}.
C1_EachListingFetchedOnce ==
    /\ \A c \in 1..i :
         \A m, n \in 1..Len(ListingGets(c)) :
             m # n => ListingGets(c)[m].url # ListingGets(c)[n].url
    /\ Ran(CyclicSite, <<Record1>>) =>
         /\ UrlsOf(ListingGets(1)) = <<ListingA, ListingB>>
         /\ visited_urls = {ListingA, ListingB}
         /\ nextrequest_url = Some(ListingA)

ListingUrls == {ListingA, ListingB, ListingC}

\* C2: on a site with finitely many listing URLs and a network that does not
\* fail, the traversal of a run of scrape on one case is left through the
\* while test of line 66, after at least one and at most as many listing
\* requests as the site has listing URLs, each of which added a URL to
\* visited_urls.
C2_TraversalTerminates ==
    \A s \in {Fixture, CyclicSite, CollidingSite} :
        Ran(s, <<Record1>>) =>
            /\ pc = "returned"
            /\ ~loop_condition(nextrequest_url, visited_urls)
            /\ Len(ListingGets(1)) \in 1..Cardinality(ListingUrls)
            /\ Cardinality(visited_urls) = Len(ListingGets(1))

\* A row qualifies: at least three columns and a hyperlink, an <a> with an
\* href, in the third.
Qualifying(row) == Len(row) >= 3 /\ ~IsNone(row[3]) /\ ~IsNone(Val(row[3]).href)

RecordOf(row) ==
    [asset_url |-> Val(Val(row[3]).href), name |-> strip(Val(row[3]).text)]

\* C3: on every index page with a table, _get_asset_links returns after
\* writing a metadata index of one record per qualifying row of the table,
\* in row order; the other rows add none and raise nothing.
C3_OneRecordPerQualifyingRow ==
    entry = "_get_asset_links" /\ ~IsNone(index_html.table) =>
        /\ pc = "returned"
        /\ LET rows == SelectSeq(Val(index_html.table), Qualifying)
           IN  data_file = Some([n \in 1..Len(rows) |-> RecordOf(rows[n])])

\* The indices where sep occurs in s.
Occurrences(s, sep) ==
    { n \in 1..Len(s) : n + Len(sep) - 1 <= Len(s) /\ SubSeq(s, n, n + Len(sep) - 1) = sep }

Max(S) == CHOOSE n \in S : \A m \in S : m <= n

\* C7: the folder identifier is the text after the last "folder_filter=" of
\* the URL, and the whole URL when it has none.
C7_FolderIdentifier ==
    pc = "derived" =>
        LET url == Val(nextrequest_url)
            at == Occurrences(url, "folder_filter=")
        IN  child_page_dir =
                IF at = {} THEN url
                ELSE SubSeq(url, Max(at) + Len("folder_filter="), Len(url))

\* C7's case: ".../list?folder_filter=42/docs" gives "42/docs".
C7_Witness ==
    /\ pc = "derived"
    /\ nextrequest_url = Some("list?folder_filter=42/docs")
    /\ child_page_dir = "42/docs"

\* The local paths of the fixture's three files.
FixturePaths ==
    <<cache_path_of(get_download_path("42", "a.pdf")),
      cache_path_of(get_download_path("42", "b.pdf")),
      cache_path_of(get_download_path("42&page=2", "a.pdf"))>>

\* C4: with an index of two cases, the first with a case page without the
\* "Internal Affairs Case No." anchor, a run of scrape on the fixture
\* returns the downloads of the second case: nothing is requested or
\* downloaded for the first, and no error is raised.
C4_ChildWithoutLinkSkipped ==
    Ran(Fixture, <<Record3, Record1>>) =>
        /\ pc = "returned"
        /\ \A n \in 1..Len(log) :
             log[n].child = 1 => log[n].op \notin {"sleep", "get", "download", "fetch"}
        /\ Len(Downloads(2)) = 3
        /\ downloaded_assets = FixturePaths

\* C5: when an index names the same case twice, the downloads of the second
\* child page find their paths in the store: they request nothing, and
\* return the local paths the downloads of the first child page returned.
C5_DownloadIdempotent ==
    Ran(Fixture, <<Record1, Record1>>) =>
        /\ pc = "returned"
        /\ Len(Fetches(1)) = 3
        /\ Len(Downloads(2)) = 3
        /\ Fetches(2) = <<>>
        /\ downloaded_assets = FixturePaths \o FixturePaths

\* C6: scrape returns the list of the local paths of the document links it
\* found, each of the form agency_slug/assets/<folder>/<name>; on the
\* fixture (an index of one case, its case page, two listing pages with
\* three document links) a run of scrape ends by returning three paths,
\* and none when the index's one case page has no case number link.
C6_ScrapeReturnsPaths ==
    entry = "scrape" /\ pc \in {"returned", "raised"} /\ site = Fixture
        /\ ~IsNone(data_file) /\ Len(Val(data_file)) = 1
    => /\ pc = "returned"
       /\ Len(downloaded_assets) = (IF data_file = Some(<<Record1>>) THEN 3 ELSE 0)
       /\ \A n \in 1..Len(downloaded_assets) :
            find_from[downloaded_assets[n], agency_slug \o "/assets/", 1] > 0

StartsWith(s, prefix) == Len(s) >= Len(prefix) /\ SubSeq(s, 1, Len(prefix)) = prefix

\* The directory derived from the entry listing URL of child page c.
EntryDirectory(c) ==
    path_str(<<agency_slug, "assets", get_child_page_dir(ListingGets(c)[1].url)>>) \o "/"

\* C8: the three files of the fixture's two listing pages, the second
\* reached by a next link, are downloaded under the directory derived from
\* the entry listing URL.
C8_FolderStableAlongChain ==
    Ran(Fixture, <<Record1>>) =>
        /\ Len(ListingGets(1)) = 2
        /\ Len(Downloads(1)) = 3
        /\ \A n \in 1..3 : StartsWith(Downloads(1)[n].path, EntryDirectory(1))

IsRequest(e) == e.op \in {"get", "fetch"}

\* C9: a run of scrape on the fixture makes its requests (the landing page,
\* the listing pages, the files), each after a delay that follows the
\* request before it.
C9_ThrottleBeforeEachRequest ==
    Ran(Fixture, <<Record1>>) =>
        /\ \E n \in 1..Len(log) : IsRequest(log[n])
        /\ \A n \in 1..Len(log) :
             IsRequest(log[n]) =>
                \E j \in 1..(n - 1) :
                    /\ log[j].op = "sleep"
                    /\ \A m \in (j + 1)..(n - 1) : ~IsRequest(log[m])

\* The URL matches the filter: it contains it.
Matches(url, pattern) == find_from[url, pattern, 1] > 0

\* C10: a run of scrape on the fixture with the filter "f/1" gives the
\* downloader the document link that matches it, and no other.
C10_OnlyMatchingDownloaded ==
    Ran(Fixture, <<Record1>>) /\ filter = "f/1" =>
        /\ pc = "returned"
        /\ Urls(Downloads(1)) = {platform \o "/f/1"}
        /\ \A n \in 1..Len(log) : log[n].op = "download" => Matches(log[n].url, filter)

\* What Python raises when a None is dereferenced: an attribute of None
\* (AttributeError), a subscript of None or an iteration over it (TypeError).
NullDereference == {"AttributeError", "TypeError"}

\* C11: on an index page without a table _get_asset_links ends with an
\* error of its own, not with a dereference of the missing table, and the
\* metadata index is as it was before the call.
C11_NoTableDistinctError ==
    entry = "_get_asset_links" /\ IsNone(index_html.table) =>
        /\ pc = "raised"
        /\ err \notin NullDereference
        /\ data_file \in {None, Some(<<Record3>>)}

\* C12: when the landing page of a case has no document-link anchor, the
\* run of scrape ends with an error of its own (listing entry not found),
\* not with the dereference of a missing value, after the landing page was
\* requested and before any listing page is requested or file downloaded.
C12_ListingEntryNotFound ==
    Ran(BadLandingSite, <<Record1>>) =>
        /\ pc = "raised"
        /\ err \notin NullDereference
        /\ \E n \in 1..Len(log) : log[n].op = "get" /\ log[n].url = LandingBad
        /\ ListingGets(1) = <<>>
        /\ Downloads(1) = <<>>

\* The "next" anchor of the listing page at url, as the site serves it.
NextAnchorAt(url) == find_class(requests_get(url).value.anchors, "next")

\* C13: on the fixture, whose first listing page has the next href
\* "?folder_filter=42&page=2", the second listing request of a run of scrape
\* is at that href resolved against the first page's URL, which is not the
\* one it has against the base URL.
C13_NextResolvedAgainstCurrent ==
    Ran(Fixture, <<Record1>>) =>
        /\ Len(ListingGets(1)) = 2
        /\ ListingGets(1)[1].url = ListingA
        /\ ListingGets(1)[2].url = urljoin(ListingA, Val(Val(NextAnchorAt(ListingA)).href))
        /\ ListingGets(1)[2].url # urljoin(base_url, Val(Val(NextAnchorAt(ListingA)).href))

\* The child page of an AssetRecord of the metadata index.
ChildPageOf(record) ==
    [source_name |-> record.name, url |-> urljoin(base_url, record.asset_url)]

\* The child pages of the metadata index, in index order.
ResolvedFromIndex ==
    [n \in 1..Len(Val(data_file)) |-> ChildPageOf(Val(data_file)[n])]

\* C14: a run of scrape on the fixture requests the case page of every
\* record of the index at the record's URL, and reads no case page through
\* the cache.
C14_CasePageFetchedLive ==
    \A records \in SeqsUpTo({Record1, Record3}, MaxRecords) :
        Ran(Fixture, records) =>
            /\ \A n \in 1..Len(log) : log[n].op # "read"
            /\ \A c \in 1..Len(records) :
                 \E n \in 1..Len(log) :
                    /\ log[n].op = "get"
                    /\ log[n].child = c
                    /\ log[n].url = ChildPageOf(records[c]).url

\* C15: the child pages scrape works on are those of the metadata index,
\* one per AssetRecord in index order; without an index scrape requests and
\* downloads nothing.
C15_IndexSoleSource ==
    /\ entry = "scrape" /\ pc = "for" => child_pages = Some(ResolvedFromIndex)
    /\ entry = "scrape" /\ IsNone(data_file) => log = <<>> /\ downloaded_assets = <<>>

\* C16: when an index names the same case twice, the traversal of the
\* second child page starts from an empty visited set: it requests the
\* listing pages the traversal of the first one requested.
C16_FreshVisitedPerChild ==
    Ran(Fixture, <<Record1, Record1>>) =>
        /\ UrlsOf(ListingGets(1)) = <<ListingA, ListingB>>
        /\ UrlsOf(ListingGets(2)) = UrlsOf(ListingGets(1))
        /\ visited_urls = Urls(ListingGets(2))

\* C17: on a network where any request may fail, a run of scrape on the
\* fixture either returns the three paths, or ends with the error of the
\* failed request, made as its last step, with every file requested before
\* it in the store.
C17_FailureAbortsRun ==
    Ran(FlakyFixture, <<Record1>>) =>
        \/ pc = "returned" /\ downloaded_assets = FixturePaths
        \/ /\ pc = "raised"
           /\ err = "ConnectionError"
           /\ Len(log) > 0 /\ IsRequest(log[Len(log)])
           /\ \A n \in 1..(Len(log) - 1) :
                log[n].op = "fetch" =>
                    log[n].path \in DOMAIN store /\ store[log[n].path] = log[n].url

\* C18: the resolver produces a child page only after the one before it
\* has been consumed by the loop (its case page read, its requests made).
C18_LazyResolver ==
    \A c \in 1..(Len(page_meta) - 1) :
        \E n \in 1..Len(log) : log[n].child = c /\ log[n].op # "sleep"

\* The events after event n that open another page: a request of a page or
\* the read of a case page.
PagesAfter(n) == { m \in (n + 1)..Len(log) : log[m].op \in {"get", "read"} }

\* The URLs given to the downloader after event n and before the next page.
DownloadsAfter(n) ==
    LET upto == IF PagesAfter(n) = {} THEN Len(log)
                ELSE (CHOOSE m \in PagesAfter(n) : \A o \in PagesAfter(n) : m <= o) - 1
        made == SelectSeq(SubSeq(log, n + 1, upto), LAMBDA e : e.op = "download")
    IN  [j \in 1..Len(made) |-> made[j].url]

\* C19: in a run of scrape on the fixture, the two document links of the
\* first listing page are given to the downloader, in page order, before
\* the second listing page is requested.
C19_DownloadsBeforeNextPage ==
    Ran(Fixture, <<Record1>>) =>
        \E n \in 1..Len(log) :
            /\ log[n].op = "get" /\ log[n].line = 68 /\ log[n].url = ListingA
            /\ \E m \in PagesAfter(n) : log[m].line = 68 /\ log[m].url = ListingB
            /\ DownloadsAfter(n) = <<platform \o "/f/1", "https://cdn.org/f/2">>

\* C20: on the site whose second listing page has two document links of the
\* same display name and different URLs, a run of scrape returns with each
\* of the two URLs the content of a file of the store of its own.
C20_DistinctUrlsDistinctPaths ==
    Ran(CollidingSite, <<Record1>>) =>
        /\ pc = "returned"
        /\ \E p, q \in DOMAIN store :
             /\ p # q
             /\ store[p] = platform \o "/f/3"
             /\ store[q] = platform \o "/f/4"
=============================================================================
